---- MODULE Spec2Model ----
(***************************************************************************)
(* Offline record linkage: (name, city, postal code) -> registry           *)
(* identifier (cik10) -> classification.  Model of orchestrator.py,        *)
(* scoring.py, submissions_store.py and sec_client.py.                     *)
(*                                                                         *)
(* Text is modelled at two grains:                                         *)
(*   - postal codes and identifiers are sequences of one-character strings *)
(*     (<<"6","2","7","0","4">>), so digit stripping, truncation, padding  *)
(*     and integer parsing are computed as the code computes them;         *)
(*   - names and cities are sequences of words (<<"St","Louis">>); case    *)
(*     folding is the table Upper, punctuation is not modelled.            *)
(* Scores are exact fixed-point numbers: the integer n stands for the      *)
(* float n / Scale.                                                        *)
(***************************************************************************)
EXTENDS Integers, Sequences, FiniteSets, TLC

VARIABLES
    store_cache,     \* SubmissionsStore._cache : cik10 -> document or None
    backing_reads,   \* per cik10, how often the archive/directory was probed
    sic_cache,       \* SicResolver cache : cik10 -> [info, fetched_at]
    now,             \* the clock, in hours
    force_ambiguous, \* Orchestrator.force_ambiguous
    pc,              \* [at |-> "idle"], or [at |-> "csv", args, audit_on, audit] inside
                     \* the loop of run_csv, audit being the lines written to audit_f
    results,         \* the output rows of the latest run_row / run_csv, each with its
                     \* inputs (via, name, city, zip) and what was done to build it
    last,            \* what the latest operation did
    zout,            \* postal normalization: the input and both outputs
    client,          \* SecClient: has_store (submissions_store is not None) and http,
                     \* the identifiers whose URL it requested from the live endpoint
    store_closed     \* SubmissionsStore.close() was called on an archive-backed store

vars ==
    <<store_cache, backing_reads, sic_cache, now, force_ambiguous, pc, results, last, zout,
      client, store_closed>>

pipeline_vars ==
    <<store_cache, backing_reads, sic_cache, now, force_ambiguous, pc, results, last,
      client, store_closed>>

\* None where the code holds a string (form, accession, a reason)
None == "None"

(***************************************************************************)
(* Bounds of the model.                                                    *)
(***************************************************************************)
MaxZipLen == 6
MaxRows == 2
MaxTicks == 2

(***************************************************************************)
(* Characters and strings.                                                 *)
(***************************************************************************)
DigitChars == {"0", "1", "2", "3", "4", "5", "6", "7", "8", "9"}

IsDigit(c) == c \in DigitChars

IsSpace(c) == c = " "

\* str.strip()
RECURSIVE Strip(_)
Strip(s) ==
    IF s = <<>> THEN s
    ELSE IF IsSpace(Head(s)) THEN Strip(Tail(s))
    ELSE IF IsSpace(s[Len(s)]) THEN Strip(SubSeq(s, 1, Len(s) - 1))
    ELSE s

\* _DIGITS.sub("", s) with _DIGITS = \D+
StripNonDigits(s) == SelectSeq(s, IsDigit)

\* str.zfill(w) of a string of digits
Zfill(s, w) == IF Len(s) >= w THEN s ELSE [i \in 1..(w - Len(s)) |-> "0"] \o s

\* scoring._norm_zip5
_norm_zip5(z) ==
    IF z = <<>> THEN <<>>
    ELSE LET digits == StripNonDigits(z)
         IN  IF Len(digits) >= 5 THEN SubSeq(digits, 1, 5) ELSE Zfill(digits, 5)

\* orchestrator._zip5
_zip5(s) ==
    LET ds == StripNonDigits(s)
    IN  IF Len(ds) >= 5 THEN SubSeq(ds, 1, 5) ELSE Zfill(ds, 5)

(***************************************************************************)
(* Postal normalization as a machine of its own: an input string is drawn  *)
(* and both normalizers are applied to it.                                 *)
(***************************************************************************)
ZipAlphabet == {"0", "6", "a", " "}

NormalizePostal(z) ==
    /\ Len(z) <= MaxZipLen
    /\ zout' = [applied |-> TRUE, input |-> z, scoring |-> _norm_zip5(z), orch |-> _zip5(z)]
    /\ UNCHANGED pipeline_vars

(***************************************************************************)
(* Scores.  Scale is a common multiple of every denominator the bounded    *)
(* universe of names and cities can produce (ExactArithmetic checks it).   *)
(***************************************************************************)
Scale == 16 * 15 * 10

Max(a, b) == IF a >= b THEN a ELSE b

\* the string length of " ".join(sorted(S)) for a set of words S
RECURSIVE JoinLen(_)
JoinLen(S) ==
    IF S = {} THEN 0
    ELSE LET w == CHOOSE x \in S : TRUE
         IN  Len(w) + (IF S = {w} THEN 0 ELSE 1 + JoinLen(S \ {w}))

\* len((x + " " + y).strip()) for already stripped x and y of those lengths
JoinedLen(lx, ly) == IF lx = 0 THEN ly ELSE IF ly = 0 THEN lx ELSE lx + 1 + ly

\* SequenceMatcher(None, x, y).ratio() when x is a prefix of y: the one
\* matching block is x itself, so the ratio is 2*len(x) / (len(x)+len(y));
\* difflib returns 1.0 for two empty strings.
PrefixRatio(lx, ly) == IF lx + ly = 0 THEN Scale ELSE (Scale * 2 * lx) \div (lx + ly)

PrefixRatioExact(lx, ly) == lx + ly = 0 \/ (Scale * 2 * lx) % (lx + ly) = 0

(***************************************************************************)
(* City normalization (scoring.py).                                        *)
(***************************************************************************)
\* str.upper() on the words of the model
Upper(w) ==
    CASE w = "Springfield" -> "SPRINGFIELD"
      [] w = "St" -> "ST"
      [] w = "Louis" -> "LOUIS"
      [] w = "Acme" -> "ACME"
      [] w = "Inc" -> "INC"
      [] OTHER -> w

UpperAll(ws) == [i \in 1..Len(ws) |-> Upper(ws[i])]

CANON(t) ==
    CASE t \in {"ST", "ST.", "SAINT"} -> "SAINT"
      [] t \in {"FT", "FT.", "FORT"} -> "FORT"
      [] t \in {"MT", "MT.", "MOUNT"} -> "MOUNT"
      [] t = "N" -> "NORTH"
      [] t = "S" -> "SOUTH"
      [] t = "E" -> "EAST"
      [] t = "W" -> "WEST"
      [] OTHER -> t

_norm_city(s) ==
    IF s = <<>> THEN <<>>
    ELSE [i \in 1..Len(s) |-> CANON(Upper(s[i]))]

Words(s) == {s[i] : i \in 1..Len(s)}

\* max(s1, s2) of token_set_ratio, from the lengths of the joined
\* intersection and of the two joined remainders
BestRatio(inter, a_rem, b_rem) ==
    Max(PrefixRatio(inter, JoinedLen(inter, a_rem)), PrefixRatio(inter, JoinedLen(inter, b_rem)))

\* token_set_ratio past its two _norm_city calls
TokenSetRatioOf(a, b) ==
    IF a = <<>> \/ b = <<>> THEN 0
    ELSE BestRatio(JoinLen(Words(a) \cap Words(b)), JoinLen(Words(a) \ Words(b)),
                   JoinLen(Words(b) \ Words(a)))

token_set_ratio(a0, b0) == TokenSetRatioOf(_norm_city(a0), _norm_city(b0))

\* A filing date is <<y, m, d>> when it is a well-formed YYYY-MM-DD string
\* and NoDate when it is None.
NoDate == <<>>

_parse_date_iso(d) == IF Len(d) = 3 THEN d ELSE <<0, 0, 0>>

\* tuple comparison of two (y, m, d) triples
TripleLess(p, q) ==
    \/ p[1] < q[1]
    \/ p[1] = q[1] /\ p[2] < q[2]
    \/ p[1] = q[1] /\ p[2] = q[2] /\ p[3] < q[3]

(***************************************************************************)
(* Identifiers.                                                            *)
(***************************************************************************)
CikWidth == 10

DigitOf(d) == <<"0", "1", "2", "3", "4", "5", "6", "7", "8", "9">>[d + 1]

DigitVal(c) == CHOOSE d \in 0..9 : DigitOf(d) = c

\* int("...") of a string of digits
RECURSIVE IntOf(_)
IntOf(s) == IF s = <<>> THEN 0 ELSE 10 * IntOf(SubSeq(s, 1, Len(s) - 1)) + DigitVal(s[Len(s)])

\* str(n) for n >= 0
RECURSIVE Decimal(_)
Decimal(n) == IF n < 10 THEN <<DigitOf(n)>> ELSE Append(Decimal(n \div 10), DigitOf(n % 10))

\* SubmissionsStore._cik10 and sec_client._normalize_cik10:
\* f"{int(str(cik).strip()):010d}"
_cik10(cik) == Zfill(Decimal(IntOf(Strip(cik))), CikWidth)

_normalize_cik10(cik) == Zfill(Decimal(IntOf(Strip(cik))), CikWidth)

CikA == _cik10(<<"1">>)
CikB == _cik10(<<"2">>)
CikC == _cik10(<<"3">>)
CikD == _cik10(<<"4">>)

Ciks == {CikA, CikB, CikC, CikD}

\* the forms in which a caller may write an identifier
RawCiks ==
    {c : c \in Ciks} \cup {<<"1">>, <<"0", "1">>, <<" ", "1", " ">>, <<"3">>, <<"0", "0", "3">>}

(***************************************************************************)
(* The backing archive: one Submissions document per identifier.           *)
(***************************************************************************)
NoDoc == [present |-> FALSE]

NoAddress == [city |-> <<>>, zipCode |-> <<>>]

NoFilings == [form |-> <<>>, accessionNumber |-> <<>>, filingDate |-> <<>>]

DocA ==
    [present |-> TRUE,
     business |-> [city |-> <<"SPRINGFIELD">>, zipCode |-> <<"6", "2", "7", "0", "4">>],
     mailing |-> [city |-> <<"ST", "LOUIS">>, zipCode |-> <<"6", "3", "1", "0", "1">>],
     sic |-> "3571", sicDescription |-> "ELECTRONIC COMPUTERS",
     recent |-> [form |-> <<"8-K", "10-K">>,
                 accessionNumber |-> <<"A-2", "A-1">>,
                 filingDate |-> <<<<2024, 3, 1>>, <<2023, 2, 1>>>>]]

DocB ==
    [present |-> TRUE,
     business |-> [city |-> <<"SPRINGFIELD">>,
                   zipCode |-> <<"6", "2", "7", "0", "4", "-", "1", "2", "3", "4">>],
     mailing |-> NoAddress,
     sic |-> "7372", sicDescription |-> "PREPACKAGED SOFTWARE",
     recent |-> [form |-> <<"8-K">>,
                 accessionNumber |-> <<"B-1">>,
                 filingDate |-> <<<<2022, 5, 9>>>>]]

DocD ==
    [present |-> TRUE,
     business |-> [city |-> <<"SAINT", "PAUL">>, zipCode |-> <<"N", "/", "A">>],
     mailing |-> NoAddress,
     sic |-> None, sicDescription |-> None,
     recent |-> NoFilings]

\* what the archive member / file CIK<cik10>.json holds; CikC has none
Archive(cik10) ==
    CASE cik10 = CikA -> DocA
      [] cik10 = CikB -> DocB
      [] cik10 = CikD -> DocD
      [] OTHER -> NoDoc

(***************************************************************************)
(* SubmissionsStore (submissions_store.py) and SecClient (sec_client.py).   *)
(* A store state is what a client works on:                                *)
(*   cache, reads   the memo dict and the count of backing-store probes,   *)
(*   closed         close() was called on an archive-backed store, whose   *)
(*                  _zip is then None,                                     *)
(*   has_store      the client's submissions_store is not None,            *)
(*   http           the identifiers requested from the live endpoint,      *)
(*   net            how the live endpoint answers a request.               *)
(***************************************************************************)
Put(f, k, v) == (k :> v) @@ f

\* StoreFill that memoizes a document but not None
StoreFill_skip_none(st, cik10, data) ==
    [store |-> [st EXCEPT !.cache = IF data.present THEN Put(st.cache, cik10, data) ELSE st.cache,
                          !.reads = Put(st.reads, cik10, st.reads[cik10] + 1)],
     doc |-> data, raised |-> FALSE]

\* SubmissionsStore.get past the normalization of its argument, on a miss:
\* data is what the archive or the directory holds for cik10
StoreFill(st, cik10, data) ==
    [store |-> [st EXCEPT !.cache = Put(st.cache, cik10, data),
                          !.reads = Put(st.reads, cik10, st.reads[cik10] + 1)],
     doc |-> data, raised |-> FALSE]

\* past the normalization: a memoized result is returned; on a closed
\* archive self._zip.open raises; else the backing store is read
StoreGetAt(st, cik10) ==
    IF cik10 \in DOMAIN st.cache
    THEN [store |-> st, doc |-> st.cache[cik10], raised |-> FALSE]
    ELSE IF st.closed THEN [store |-> st, doc |-> NoDoc, raised |-> TRUE]
    ELSE StoreFill(st, cik10, Archive(cik10))

\* int(str(cik).strip()) succeeds
IsNumeric(cik) == Strip(cik) # <<>> /\ \A i \in 1..Len(Strip(cik)) : IsDigit(Strip(cik)[i])

\* SubmissionsStore.get: [store, doc, raised]
StoreGet(st, cik) ==
    IF IsNumeric(cik) THEN StoreGetAt(st, _cik10(cik))
    ELSE [store |-> st, doc |-> NoDoc, raised |-> TRUE]

\* SecClient._get_json on the URL of cik10: the request is recorded (the
\* attempts of one call as one entry); 404 gives None, a 2xx reply the
\* document, anything else raises SecHttpError once the tries are used up
_get_json(st, cik10) ==
    [store |-> [st EXCEPT !.http = Append(st.http, cik10)],
     doc |-> IF st.net = "200" THEN Archive(cik10) ELSE NoDoc,
     raised |-> st.net \notin {"200", "404"}]

\* try: doc = self.submissions_store.get(cik10) / except Exception: doc = None
FromStore(g) ==
    [store |-> g.store, doc |-> IF g.raised THEN NoDoc ELSE g.doc, raised |-> FALSE]

\* the live endpoint asked when the store gave nothing
OrNetwork(g, cik10) == IF g.doc.present THEN g ELSE _get_json(g.store, cik10)

\* SubmissionsOf that falls through to the live endpoint when the store has
\* no document or raises
SubmissionsOf_fallthrough(st, cik10) ==
    IF st.has_store THEN OrNetwork(FromStore(StoreGet(st, cik10)), cik10)
    ELSE _get_json(st, cik10)

\* get_submissions past the normalization of its argument
SubmissionsOf(st, cik10) ==
    IF st.has_store THEN FromStore(StoreGet(st, cik10)) ELSE _get_json(st, cik10)

\* SecClient.get_submissions: [store, doc, raised]
get_submissions(st, cik) ==
    IF IsNumeric(cik) THEN SubmissionsOf(st, _normalize_cik10(cik))
    ELSE [store |-> st, doc |-> NoDoc, raised |-> TRUE]

(***************************************************************************)
(* Scorer (scoring.py).                                                    *)
(***************************************************************************)
\* one address block of _addresses_from_submissions: the city stripped and
\* upper-cased, the postal code normalized; a missing key reads as ""
AddressBlock(b) == [city |-> UpperAll(b.city), zip5 |-> _norm_zip5(b.zipCode)]

_addresses_from_submissions(subs) ==
    IF ~subs.present
    THEN [business |-> [city |-> <<>>, zip5 |-> <<>>], mail |-> [city |-> <<>>, zip5 |-> <<>>]]
    ELSE [business |-> AddressBlock(subs.business), mail |-> AddressBlock(subs.mailing)]

\* dates[i] or "" compared as strings: "" sorts before every date
DateStrLess(p, q) == q # NoDate /\ (p = NoDate \/ TripleLess(p, q))

\* idxs.sort(key=lambda i: dates[i] or "", reverse=True), stable
RECURSIVE InsertByDateDesc(_, _, _)
InsertByDateDesc(i, idxs, dates) ==
    IF idxs = <<>> THEN <<i>>
    ELSE IF DateStrLess(dates[Head(idxs)], dates[i]) THEN <<i>> \o idxs
    ELSE <<Head(idxs)>> \o InsertByDateDesc(i, Tail(idxs), dates)

RECURSIVE SortByDateDesc(_, _)
SortByDateDesc(n, dates) ==
    IF n = 0 THEN <<>> ELSE InsertByDateDesc(n, SortByDateDesc(n - 1, dates), dates)

HighValueForms == {"10-K", "20-F"}

\* the first index of idxs whose form is high-value, else idxs[0]
PickFrom(forms, idxs) ==
    IF \E k \in 1..Len(idxs) : forms[idxs[k]] \in HighValueForms
    THEN idxs[CHOOSE k \in 1..Len(idxs) :
                  /\ forms[idxs[k]] \in HighValueForms
                  /\ \A j \in 1..(k - 1) : forms[idxs[j]] \notin HighValueForms]
    ELSE idxs[1]

\* _pick_latest_index_from_subs: a 1-based index, 0 for None
_pick_latest_index_from_subs(subs) ==
    IF ~subs.present \/ subs.recent.form = <<>> THEN 0
    ELSE PickFrom(subs.recent.form, SortByDateDesc(Len(subs.recent.form), subs.recent.filingDate))

NoMeta == [form |-> None, accession |-> None, filingDate |-> NoDate]

\* the metadata at index idx of the parallel lists of filings.recent
MetaAt(recent, idx) ==
    IF idx = 0 THEN NoMeta
    ELSE [form |-> IF idx <= Len(recent.form) THEN recent.form[idx] ELSE None,
          accession |-> IF idx <= Len(recent.accessionNumber)
                        THEN recent.accessionNumber[idx] ELSE None,
          filingDate |-> IF idx <= Len(recent.filingDate) THEN recent.filingDate[idx] ELSE NoDate]

\* for documents whose filingDate list is at least as long as their form list
_meta_from_subs(subs) ==
    IF ~subs.present THEN NoMeta ELSE MetaAt(subs.recent, _pick_latest_index_from_subs(subs))

\* the sort key `dates[i] or ""` of _pick_latest_index_from_subs is computed
\* for every index of forms and raises IndexError past the end of dates
PickRaises(subs) ==
    /\ subs.present
    /\ subs.recent.form # <<>>
    /\ Len(subs.recent.filingDate) < Len(subs.recent.form)

\* one pass of the loop over ("business", "mail") in rank_candidates, with
\* c and z the normalized city and postal code of the block and s the city
\* similarity
SlotUpdate(acc, block, z, s, zip_in) ==
    [city_score |-> IF s > acc.city_score THEN s ELSE acc.city_score,
     matched_city |-> IF s > acc.city_score /\ block.city # <<>>
                      THEN block.city ELSE acc.matched_city,
     zip_score |-> IF z # <<>> /\ zip_in # <<>> /\ z = zip_in THEN Scale ELSE acc.zip_score,
     matched_zip |-> IF z # <<>> /\ zip_in # <<>> /\ z = zip_in THEN z ELSE acc.matched_zip]

\* s = token_set_ratio(city_in, c) if c else 0.0
CitySimilarity(city_in, c) == IF c # <<>> THEN token_set_ratio(city_in, c) ELSE 0

SlotStep(acc, block, city_in, zip_in) ==
    SlotUpdate(acc, block, _norm_zip5(block.zip5),
               CitySimilarity(city_in, _norm_city(block.city)), zip_in)

NoMatch == [city_score |-> 0, matched_city |-> <<>>, zip_score |-> 0, matched_zip |-> <<>>]

\* the loop over both slots
SlotLoop(addresses, city_in, zip_in) ==
    SlotStep(SlotStep(NoMatch, addresses.business, city_in, zip_in),
             addresses.mail, city_in, zip_in)

\* city_score, zip_score and the matched values of a candidate whose
\* document is subs
AddrMatch(subs, city_in, zip_in) ==
    SlotLoop(_addresses_from_submissions(subs), city_in, zip_in)

\* TotalScore without the weight 0.5
TotalScore_unweighted(addr_score, name_score) == addr_score + name_score

\* total_score = addr_score + 0.5 * float(cand.name_score)
TotalScore(addr_score, name_score) == addr_score + name_score \div 2

\* RankedCandidate(...)
RankedCandidate(cand, m, meta) ==
    [cik10 |-> cand.cik10, edgar_name |-> cand.edgar_name, name_score |-> cand.name_score,
     addr_score |-> m.city_score + m.zip_score,
     total_score |-> TotalScore(m.city_score + m.zip_score, cand.name_score),
     matched_city |-> m.matched_city, matched_zip |-> m.matched_zip,
     form |-> meta.form, accession |-> meta.accession, filingDate |-> meta.filingDate]

\* the RankedCandidate built for one candidate
ScoreCandidate(cand, subs, city_in, zip_in) ==
    RankedCandidate(cand, AddrMatch(subs, city_in, zip_in), _meta_from_subs(subs))

\* RankKeyLess with the filing date as the first key
RankKeyLess_date_first(x, y) ==
    \/ TripleLess(_parse_date_iso(x.filingDate), _parse_date_iso(y.filingDate))
    \/ /\ _parse_date_iso(x.filingDate) = _parse_date_iso(y.filingDate)
       /\ \/ x.total_score > y.total_score
          \/ x.total_score = y.total_score /\ x.addr_score > y.addr_score

\* key(x) < key(y) for key = (-total_score, -addr_score, _parse_date_iso(filingDate))
RankKeyLess(x, y) ==
    \/ x.total_score > y.total_score
    \/ x.total_score = y.total_score /\ x.addr_score > y.addr_score
    \/ /\ x.total_score = y.total_score
       /\ x.addr_score = y.addr_score
       /\ TripleLess(_parse_date_iso(x.filingDate), _parse_date_iso(y.filingDate))

\* ranked.sort(key=..., reverse=False), stable
RECURSIVE InsertRanked(_, _)
InsertRanked(x, s) ==
    IF s = <<>> THEN <<x>>
    ELSE IF RankKeyLess(x, Head(s)) THEN <<x>> \o s
    ELSE <<Head(s)>> \o InsertRanked(x, Tail(s))

RECURSIVE SortRanked(_)
SortRanked(s) ==
    IF s = <<>> THEN <<>> ELSE InsertRanked(s[Len(s)], SortRanked(SubSeq(s, 1, Len(s) - 1)))

\* ranked[:limit]
Truncate(s, limit) == SubSeq(s, 1, IF Len(s) < limit THEN Len(s) ELSE limit)

\* subs = _cache.get(cik10); if subs is None: subs = client.get_submissions(cik10)
\* r is [store, cache, ranked, fetches] with cache the per-call _cache and
\* fetches the identifiers passed to client.get_submissions, in order
FetchFor(r, cik10) ==
    IF cik10 \in DOMAIN r.cache /\ r.cache[cik10].present
    THEN [store |-> r.store, doc |-> r.cache[cik10], fetched |-> FALSE]
    ELSE [fetched |-> TRUE] @@ get_submissions(r.store, cik10)

\* RankStep that drops a candidate whose document is missing
RankStep_skip_missing(r, cand, f, city_in, zip_in) ==
    [store |-> f.store,
     cache |-> IF f.fetched THEN Put(r.cache, cand.cik10, f.doc) ELSE r.cache,
     ranked |-> IF f.doc.present
                THEN Append(r.ranked, ScoreCandidate(cand, f.doc, city_in, zip_in))
                ELSE r.ranked,
     fetches |-> IF f.fetched THEN Append(r.fetches, cand.cik10) ELSE r.fetches]

\* the body of `for cand in candidates`, f being what FetchFor returned
RankStep(r, cand, f, city_in, zip_in) ==
    [store |-> f.store,
     cache |-> IF f.fetched THEN Put(r.cache, cand.cik10, f.doc) ELSE r.cache,
     ranked |-> Append(r.ranked, ScoreCandidate(cand, f.doc, city_in, zip_in)),
     fetches |-> IF f.fetched THEN Append(r.fetches, cand.cik10) ELSE r.fetches]

RECURSIVE RankLoop(_, _, _, _, _)
RankLoop(r, candidates, i, city_in, zip_in) ==
    IF i > Len(candidates) THEN r
    ELSE RankLoop(RankStep(r, candidates[i], FetchFor(r, candidates[i].cik10), city_in, zip_in),
                  candidates, i + 1, city_in, zip_in)

\* the sort and the truncation that end rank_candidates
RankEnd(r, limit) ==
    [store |-> r.store, ranked |-> Truncate(SortRanked(r.ranked), limit), fetches |-> r.fetches]

\* rank_candidates: [store, ranked, fetches]
rank_candidates(st, candidates, city, zip5, limit) ==
    IF candidates = <<>> THEN [store |-> st, ranked |-> <<>>, fetches |-> <<>>]
    ELSE RankEnd(RankLoop([store |-> st, cache |-> <<>>, ranked |-> <<>>, fetches |-> <<>>],
                          candidates, 1, _norm_city(city), _norm_zip5(zip5)),
                 limit)

(***************************************************************************)
(* Name normalization (orchestrator.py, the fallback _norm_name).           *)
(***************************************************************************)
SuffixWords ==
    {"CORPORATION", "CORP", "INCORPORATED", "INC", "LLC", "LTD", "LIMITED", "PLC", "CO",
     "COMPANY", "HOLDING", "HOLDINGS"}

\* one _SUFFIX.sub(" ", " " + s + " "): a match takes the blanks on both
\* sides of a suffix word, so the word right after a removed one is kept
RECURSIVE SuffixPass(_, _)
SuffixPass(ws, prev_removed) ==
    IF ws = <<>> THEN <<>>
    ELSE IF Head(ws) \in SuffixWords /\ ~prev_removed THEN SuffixPass(Tail(ws), TRUE)
    ELSE <<Head(ws)>> \o SuffixPass(Tail(ws), FALSE)

\* SuffixLoop that makes one pass only
SuffixLoop_single_pass(ws) == SuffixPass(ws, FALSE)

\* while prev != s and s: ...
RECURSIVE SuffixLoop(_)
SuffixLoop(ws) ==
    IF ws = <<>> THEN ws
    ELSE LET stripped == SuffixPass(ws, FALSE)
         IN  IF stripped = ws THEN ws ELSE SuffixLoop(stripped)

_norm_name(s) == SuffixLoop(UpperAll(s))

\* how often the body of the while loop runs
RECURSIVE SuffixLoopCount(_)
SuffixLoopCount(ws) ==
    IF ws = <<>> THEN 0
    ELSE IF SuffixPass(ws, FALSE) = ws THEN 1
    ELSE 1 + SuffixLoopCount(SuffixPass(ws, FALSE))

(***************************************************************************)
(* _norm_name on text, a name being a sequence of characters.              *)
(***************************************************************************)
LowerLetters ==
    <<"a", "b", "c", "d", "e", "f", "g", "h", "i", "j", "k", "l", "m",
      "n", "o", "p", "q", "r", "s", "t", "u", "v", "w", "x", "y", "z">>

UpperLetters ==
    <<"A", "B", "C", "D", "E", "F", "G", "H", "I", "J", "K", "L", "M",
      "N", "O", "P", "Q", "R", "S", "T", "U", "V", "W", "X", "Y", "Z">>

\* str.upper(), character by character
UpperChar(c) ==
    IF \E i \in 1..26 : LowerLetters[i] = c
    THEN UpperLetters[CHOOSE i \in 1..26 : LowerLetters[i] = c]
    ELSE c

UpperText(s) == [i \in 1..Len(s) |-> UpperChar(s[i])]

\* a character _PUNCT = [^A-Z0-9]+ leaves alone
IsAlnum(c) == IsDigit(c) \/ \E i \in 1..26 : UpperLetters[i] = c

\* the words of re.sub(r"\s+", " ", _PUNCT.sub(" ", s)).strip(): the
\* maximal runs of [A-Z0-9]; cur is the run being read
RECURSIVE SplitAlnum(_, _)
SplitAlnum(s, cur) ==
    IF s = <<>> THEN IF cur = <<>> THEN <<>> ELSE <<cur>>
    ELSE IF IsAlnum(Head(s)) THEN SplitAlnum(Tail(s), Append(cur, Head(s)))
    ELSE IF cur = <<>> THEN SplitAlnum(Tail(s), <<>>)
    ELSE <<cur>> \o SplitAlnum(Tail(s), <<>>)

\* the words of a name before the suffix loop
CleanWords(s) == SplitAlnum(UpperText(s), <<>>)

\* a word of characters as the string it spells
RECURSIVE WordOf(_)
WordOf(cs) == IF cs = <<>> THEN "" ELSE Head(cs) \o WordOf(Tail(cs))

WordsOf(words) == [i \in 1..Len(words) |-> WordOf(words[i])]

\* the words kept by the suffix loop, joined by single blanks
RECURSIVE JoinKept(_, _)
JoinKept(kept, words) ==
    IF kept = <<>> THEN <<>>
    ELSE (CHOOSE cs \in {words[i] : i \in 1..Len(words)} : WordOf(cs) = Head(kept))
         \o (IF Len(kept) > 1 THEN <<" ">> ELSE <<>>)
         \o JoinKept(Tail(kept), words)

NormalizedFrom(words) == JoinKept(SuffixLoop(WordsOf(words)), words)

\* _norm_name(s) for a string s
_norm_name_text(s) == NormalizedFrom(CleanWords(s))

(***************************************************************************)
(* Candidate generation (candidate_generation.py), from the specification: *)
(* the entries of the name map under the normalized name whose weight      *)
(* reaches the threshold, best first, one per identifier, at most limit.   *)
(***************************************************************************)
name_map(key) ==
    CASE key = <<"ACME">> ->
             <<[cik10 |-> CikA, edgar_name |-> "ACME CORP", name_score |-> Scale],
               [cik10 |-> CikB, edgar_name |-> "ACME HOLDINGS", name_score |-> (9 * Scale) \div 10]>>
      [] key = <<"GLOBEX">> ->
             <<[cik10 |-> CikC, edgar_name |-> "GLOBEX CORP", name_score |-> Scale]>>
      [] key = <<"INITECH">> ->
             <<[cik10 |-> CikD, edgar_name |-> "INITECH LLC", name_score |-> (9 * Scale) \div 10]>>
      [] OTHER -> <<>>

RECURSIVE InsertByNameScore(_, _)
InsertByNameScore(x, s) ==
    IF s = <<>> THEN <<x>>
    ELSE IF x.name_score > Head(s).name_score THEN <<x>> \o s
    ELSE <<Head(s)>> \o InsertByNameScore(x, Tail(s))

RECURSIVE SortByNameScore(_)
SortByNameScore(s) ==
    IF s = <<>> THEN <<>>
    ELSE InsertByNameScore(s[Len(s)], SortByNameScore(SubSeq(s, 1, Len(s) - 1)))

RECURSIVE DedupeByCik(_, _)
DedupeByCik(s, seen) ==
    IF s = <<>> THEN <<>>
    ELSE IF Head(s).cik10 \in seen THEN DedupeByCik(Tail(s), seen)
    ELSE <<Head(s)>> \o DedupeByCik(Tail(s), seen \cup {Head(s).cik10})

generate_candidates(name_norm, threshold, limit) ==
    LET hits == SelectSeq(name_map(name_norm), LAMBDA c : c.name_score >= threshold)
    IN  Truncate(DedupeByCik(SortByNameScore(hits), {}), limit)

(***************************************************************************)
(* Resolver (resolution.py), from the specification.  The orchestrator     *)
(* tests the accepted status as the string "ok".                           *)
(***************************************************************************)
Accepted == "ok"
Ambiguous == "ambiguous"
NotFound == "not_found"

resolve_cik(ranked, zip5, min_accept, gap_accept, keep_top) ==
    IF ranked = <<>>
    THEN [status |-> NotFound, cik10 |-> <<>>, reason |-> <<"no candidates">>, top |-> <<>>]
    ELSE LET top == ranked[1]
             clear == Len(ranked) = 1 \/ top.total_score - ranked[2].total_score >= gap_accept
         IN  IF top.total_score >= min_accept /\ clear
             THEN [status |-> Accepted, cik10 |-> top.cik10, reason |-> <<"accepted">>,
                   top |-> Truncate(ranked, keep_top)]
             ELSE IF top.total_score >= min_accept
             THEN [status |-> Ambiguous, cik10 |-> <<>>,
                   reason |-> <<"margin below gap_accept">>, top |-> Truncate(ranked, keep_top)]
             ELSE [status |-> NotFound, cik10 |-> <<>>,
                   reason |-> <<"top score below min_accept">>, top |-> Truncate(ranked, keep_top)]

(***************************************************************************)
(* Classification cache (sic_retrieval.py, SicResolver), from the          *)
(* specification.  The cache state is the entries by identifier.           *)
(***************************************************************************)
ttl_hours == 24

NoInfo == [present |-> FALSE, sic |-> None, sicDescription |-> None]

\* the classification fields of a document
Classification(doc) ==
    IF doc.present /\ (doc.sic # None \/ doc.sicDescription # None)
    THEN [present |-> TRUE, sic |-> doc.sic, sicDescription |-> doc.sicDescription]
    ELSE NoInfo

Fresh(entries, cik10, t) == cik10 \in DOMAIN entries /\ t - entries[cik10].fetched_at < ttl_hours

\* the refetch of get_sic: the entry is overwritten and stamped with t
SicFill(got, sc, cik10, info, t) ==
    [store |-> got.store, sic |-> Put(sc, cik10, [info |-> info, fetched_at |-> t]),
     info |-> info, fetched |-> TRUE]

SicRefetch(got, sc, cik10, t) == SicFill(got, sc, cik10, Classification(got.doc), t)

\* get_sic_at that still trusts an entry exactly ttl old
get_sic_at_late(st, sc, cik10, t) ==
    IF cik10 \in DOMAIN sc /\ t - sc[cik10].fetched_at <= ttl_hours
    THEN [store |-> st, sic |-> sc, info |-> sc[cik10].info, fetched |-> FALSE]
    ELSE SicRefetch(get_submissions(st, cik10), sc, cik10, t)

get_sic_at(st, sc, cik10, t) ==
    IF Fresh(sc, cik10, t)
    THEN [store |-> st, sic |-> sc, info |-> sc[cik10].info, fetched |-> FALSE]
    ELSE SicRefetch(get_submissions(st, cik10), sc, cik10, t)

\* SicResolver.get_sic at time t: [store, sic, info, fetched], fetched
\* telling whether the Record Store was invoked
get_sic(st, sc, cik, t) == get_sic_at(st, sc, _normalize_cik10(cik), t)

(***************************************************************************)
(* Orchestrator (orchestrator.py).  The shared state of a run is           *)
(* S = [store, sic]; run_row and the loop body of run_csv share Resolve.   *)
(***************************************************************************)
ForcedNote == "(ambiguous: returning industry_subtype for top candidate)"

BlankRow(name, city, zip5) ==
    [name |-> name, city |-> city, zip5 |-> zip5, status |-> NotFound, reason |-> <<>>,
     cik10 |-> <<>>, sic |-> "", sic_description |-> "", industry_subtype |-> "",
     ambiguous_forced |-> FALSE]

\* info.get(k) or ""
OrEmpty(v) == IF v = None THEN "" ELSE v

\* WithInfo that also rewrites an ambiguous status to accepted
WithInfo_accepting(out, info) ==
    IF info.present
    THEN [out EXCEPT !.sic = OrEmpty(info.sic),
                     !.sic_description = OrEmpty(info.sicDescription),
                     !.industry_subtype = OrEmpty(info.sicDescription),
                     !.status = "ok"]
    ELSE out

\* the three assignments made when get_sic returned something
WithInfo(out, info) ==
    IF info.present
    THEN [out EXCEPT !.sic = OrEmpty(info.sic),
                     !.sic_description = OrEmpty(info.sicDescription),
                     !.industry_subtype = OrEmpty(info.sicDescription)]
    ELSE out

\* the "missing inputs" row of run_csv
MissingRow(name, city, zip5) ==
    [row |-> [BlankRow(name, city, zip5) EXCEPT !.reason = <<"missing inputs">>],
     generated |-> FALSE, ranked |-> <<>>, final |-> [status |-> None], fetches |-> <<>>,
     looked_up |-> <<>>, info |-> NoInfo, sic_fetched |-> FALSE, args |-> [limit |-> 0]]

\* final_of with the two thresholds passed in each other's place
final_of_swapped(ranked, zip5, args) ==
    resolve_cik(ranked, zip5, args.gap_accept, args.min_accept, 3)

\* final = resolve_cik(ranked, zip5, min_accept=..., gap_accept=..., keep_top=3)
final_of(ranked, zip5, args) == resolve_cik(ranked, zip5, args.min_accept, args.gap_accept, 3)

\* ForcedRow without the assignment of ambiguous_forced
ForcedRow_silent(out, forced_cik, info) ==
    [WithInfo(out, info) EXCEPT
        !.cik10 = IF forced_cik # <<>> THEN forced_cik ELSE out.cik10,
        !.reason = (IF out.reason # <<>> THEN out.reason ELSE <<"ambiguous">>) \o <<ForcedNote>>]

\* the row of an ambiguous resolution forced to its top candidate
ForcedRow(out, forced_cik, info) ==
    [WithInfo(out, info) EXCEPT
        !.cik10 = IF forced_cik # <<>> THEN forced_cik ELSE out.cik10,
        !.ambiguous_forced = TRUE,
        !.reason = (IF out.reason # <<>> THEN out.reason ELSE <<"ambiguous">>) \o <<ForcedNote>>]

\* what run_row and the loop body of run_csv return for a query: the shared
\* state and the output row with what was done to build it
Outcome(S, row, rk, final, args, looked_up, info, sic_fetched) ==
    [state |-> S,
     out |-> [row |-> row, generated |-> TRUE, ranked |-> rk.ranked, final |-> final,
              fetches |-> rk.fetches, looked_up |-> looked_up, info |-> info,
              sic_fetched |-> sic_fetched, args |-> args]]

\* `if status == "ok" and out["cik10"]`: g is what get_sic returned
AcceptedOutcome(out, rk, final, args, g) ==
    Outcome([store |-> g.store, sic |-> g.sic], WithInfo(out, g.info), rk, final, args,
            <<out.cik10>>, g.info, g.fetched)

\* `if status == "ambiguous" and self.force_ambiguous and ranked`, for a top
\* candidate with an identifier: g is what get_sic returned
ForcedOutcome(out, rk, final, args, forced_cik, g) ==
    Outcome([store |-> g.store, sic |-> g.sic], ForcedRow(out, forced_cik, g.info), rk, final,
            args, <<forced_cik>>, g.info, g.fetched)

\* the part of run_row after `out = {...}`
Finish(S, out, rk, final, args, force, t) ==
    IF out.status = "ok" /\ out.cik10 # <<>>
    THEN AcceptedOutcome(out, rk, final, args, get_sic(rk.store, S.sic, out.cik10, t))
    ELSE IF out.status = "ambiguous" /\ force /\ rk.ranked # <<>>
    THEN IF rk.ranked[1].cik10 # <<>>
         THEN ForcedOutcome(out, rk, final, args, rk.ranked[1].cik10,
                            get_sic(rk.store, S.sic, rk.ranked[1].cik10, t))
         ELSE Outcome([store |-> rk.store, sic |-> S.sic], ForcedRow(out, <<>>, NoInfo), rk,
                      final, args, <<>>, NoInfo, FALSE)
    ELSE Outcome([store |-> rk.store, sic |-> S.sic], out, rk, final, args, <<>>, NoInfo, FALSE)

\* out = {"name": name, ..., "status": status, "reason": ..., "cik10": ..., ...}
RowOf(name, city, zip5, final) ==
    [BlankRow(name, city, zip5) EXCEPT !.status = final.status, !.reason = final.reason,
                                       !.cik10 = final.cik10]

Resolved(S, name, city, zip5, args, force, t, rk, final) ==
    Finish(S, RowOf(name, city, zip5, final), rk, final, args, force, t)

Ranked(S, name, city, zip5, args, force, t, rk) ==
    Resolved(S, name, city, zip5, args, force, t, rk, final_of(rk.ranked, zip5, args))

\* candidate generation, ranking, resolution and the classification lookup
\* for one query, at time t with forcing flag force
Resolve(S, name, name_norm, city, zip5, args, force, t) ==
    Ranked(S, name, city, zip5, args, force, t,
           rank_candidates(S.store, generate_candidates(name_norm, args.threshold, args.limit),
                           city, zip5, args.limit))

\* Orchestrator.run_row
run_row(S, name, city, zip_code, args, force, t) ==
    Resolve(S, name, _norm_name(name), city, _zip5(zip_code), args, force, t)

\* the loop body of run_csv past the three assignments
CsvBody(S, raw_name, city, zip5, args, force, t) ==
    IF raw_name = <<>> \/ city = <<>> \/ zip5 = <<>>
    THEN [state |-> S, out |-> MissingRow(raw_name, city, zip5)]
    ELSE Resolve(S, raw_name, _norm_name(raw_name), city, zip5, args, force, t)

\* one pass of `for _, r in df.iterrows()` in run_csv, for a row whose three
\* cells are strings
csv_row(S, name_cell, city_cell, zip_cell, args, force, t) ==
    CsvBody(S, name_cell, city_cell, _zip5(Strip(zip_cell)), args, force, t)

(***************************************************************************)
(* Inputs.                                                                 *)
(***************************************************************************)
Names == {<<"Acme", "Inc">>, <<"INITECH">>, <<"NOBODY">>}

Cities == {<<"Springfield">>, <<"St", "Louis">>}

Zips == {<<"6", "2", "7", "0", "4">>, <<" ">>}

\* the rows of a table whose cells are strings: complete rows, and rows
\* with a blank name, city or postal code
CsvRows ==
    {[name |-> <<"Acme", "Inc">>, city |-> <<"St", "Louis">>, zip |-> <<"6", "2", "7", "0", "4">>],
     [name |-> <<"Acme", "Inc">>, city |-> <<"Springfield">>, zip |-> <<"6", "2", "7", "0", "4">>],
     [name |-> <<>>, city |-> <<"St", "Louis">>, zip |-> <<"6", "2", "7", "0", "4">>],
     [name |-> <<"Acme", "Inc">>, city |-> <<>>, zip |-> <<"6", "2", "7", "0", "4">>],
     [name |-> <<"INITECH">>, city |-> <<"St", "Louis">>, zip |-> <<" ">>]}

\* threshold, limit, min_accept, gap_accept: the defaults of run_row and
\* run_csv, and a laxer setting
DefaultArgs ==
    [threshold |-> (85 * Scale) \div 100, limit |-> 10,
     min_accept |-> (16 * Scale) \div 10, gap_accept |-> (3 * Scale) \div 10]

LaxArgs ==
    [threshold |-> (85 * Scale) \div 100, limit |-> 10,
     min_accept |-> (4 * Scale) \div 10, gap_accept |-> (4 * Scale) \div 100]

ArgSets == {DefaultArgs, LaxArgs}

\* candidate lists handed to rank_candidates directly; CikB also under an
\* alias whose name matches as well as that of CikA
CandPool ==
    {[cik10 |-> CikA, edgar_name |-> "ACME CORP", name_score |-> Scale],
     [cik10 |-> CikB, edgar_name |-> "ACME HOLDINGS", name_score |-> (9 * Scale) \div 10],
     [cik10 |-> CikB, edgar_name |-> "ACME", name_score |-> Scale],
     [cik10 |-> CikC, edgar_name |-> "GLOBEX CORP", name_score |-> Scale],
     [cik10 |-> CikD, edgar_name |-> "INITECH LLC", name_score |-> (9 * Scale) \div 10]}

MaxCands == 2

CandLists == UNION {[1..n -> CandPool] : n \in 0..MaxCands}

Limits == {1, 10}

(***************************************************************************)
(* The state machine.                                                      *)
(***************************************************************************)
Idle == [at |-> "idle"]

\* an operation has returned; results and last hold what it returned
Done == [at |-> "done"]

\* the live endpoint is not reachable from an offline run
Offline == "unreachable"

SharedStore(net) ==
    [cache |-> store_cache, reads |-> backing_reads, closed |-> store_closed,
     has_store |-> client.has_store, http |-> client.http, net |-> net]

Shared == [store |-> SharedStore(Offline), sic |-> sic_cache]

SetStore(st) ==
    /\ store_cache' = st.cache
    /\ backing_reads' = st.reads
    /\ store_closed' = st.closed
    /\ client' = [has_store |-> st.has_store, http |-> st.http]

SetShared(S) ==
    /\ SetStore(S.store)
    /\ sic_cache' = S.sic

\* a classification persisted by an earlier run, since changed in the archive
StaleInfo == [present |-> TRUE, sic |-> "9999", sicDescription |-> "OLD"]

Init ==
    /\ store_cache = <<>>
    /\ backing_reads = [c \in Ciks |-> 0]
    /\ sic_cache \in {<<>>, (CikA :> [info |-> StaleInfo, fetched_at |-> 0])}
    /\ now = 0
    /\ force_ambiguous \in BOOLEAN
    /\ pc = Idle
    /\ results = <<>>
    /\ last = [op |-> "init"]
    /\ zout = [applied |-> TRUE, input |-> <<>>, scoring |-> _norm_zip5(<<>>), orch |-> _zip5(<<>>)]
    /\ client = [has_store |-> TRUE, http |-> <<>>]
    /\ store_closed = FALSE

\* r, the outcome of a query whose inputs were `input`, is appended to rows
Returned(r, input, rows) ==
    /\ SetShared(r.state)
    /\ results' = Append(rows, input @@ r.out)

\* Orchestrator.run_row(name, city, zip_code, ...)
RunRow(name, city, zip_code, args) ==
    /\ pc = Idle
    /\ Returned(run_row(Shared, name, city, zip_code, args, force_ambiguous, now),
                [via |-> "run_row", name |-> name, city |-> city, zip |-> zip_code], <<>>)
    /\ last' = [op |-> "run_row", args |-> args]
    /\ pc' = Done
    /\ UNCHANGED <<now, force_ambiguous, zout>>

\* Orchestrator.run_csv up to the loop: the table is read, results = [],
\* and audit_f is opened if write_audit_jsonl names a file
CsvOpen(args, audit_on) ==
    /\ pc = Idle
    /\ pc' = [at |-> "csv", args |-> args, audit_on |-> audit_on, audit |-> <<>>]
    /\ results' = <<>>
    /\ last' = [op |-> "csv_open", args |-> args]
    /\ UNCHANGED <<store_cache, backing_reads, sic_cache, now, force_ambiguous, zout,
                   client, store_closed>>

\* the line written to audit_f for a row that was resolved
AuditRecord(name_norm, out) ==
    [query |-> [name |-> name_norm, city |-> out.row.city, zip5 |-> out.row.zip5],
     ranked |-> out.ranked, final |-> out.final]

\* `if audit_f: audit_f.write(...)`, reached by the rows that pass the
\* "missing inputs" test
Audited(log, audit_on, name_norm, out) ==
    IF audit_on /\ out.generated THEN Append(log, AuditRecord(name_norm, out)) ELSE log

\* r, the outcome of a pass of the loop, is appended to the rows and audited
CsvReturned(r, input, rows) ==
    /\ Returned(r, input, rows)
    /\ pc' = [pc EXCEPT !.audit = Audited(pc.audit, pc.audit_on, _norm_name(input.name), r.out)]

\* one pass of the loop of run_csv over a row of three strings
CsvRow(name_cell, city_cell, zip_cell) ==
    /\ pc.at = "csv"
    /\ Len(results) < MaxRows
    /\ CsvReturned(csv_row(Shared, name_cell, city_cell, zip_cell, pc.args, force_ambiguous, now),
                   [via |-> "run_csv", name |-> name_cell, city |-> city_cell, zip |-> zip_cell],
                   results)
    /\ last' = [op |-> "csv_row"]
    /\ UNCHANGED <<now, force_ambiguous, zout>>

\* a pass of the loop over a row with an empty cell: read_csv(dtype=str)
\* yields the float NaN for it, (NaN or "") is NaN, and .strip() raises
CsvRowNaN ==
    /\ pc.at = "csv"
    /\ pc' = Done
    /\ results' = <<>>
    /\ last' = [op |-> "csv_raised", args |-> pc.args]
    /\ UNCHANGED <<store_cache, backing_reads, sic_cache, now, force_ambiguous, zout,
                   client, store_closed>>

\* the loop of run_csv ends: the rows are written and returned
CsvClose ==
    /\ pc.at = "csv"
    /\ pc' = Done
    /\ last' = [op |-> "run_csv", args |-> pc.args, audit_on |-> pc.audit_on, audit |-> pc.audit]
    /\ UNCHANGED <<store_cache, backing_reads, sic_cache, now, force_ambiguous,
                   results, zout, client, store_closed>>

RankReturned(r, call) ==
    /\ SetStore(r.store)
    /\ last' = [ranked |-> r.ranked, fetches |-> r.fetches] @@ call

GetReturned(g, call) ==
    /\ SetStore(g.store)
    /\ last' = [doc |-> g.doc, raised |-> g.raised] @@ call

\* rank_candidates called on a candidate list (score_cli.py, resolve_cli.py)
RankCall(candidates, city, zip5, limit) ==
    /\ pc = Idle
    /\ RankReturned(rank_candidates(Shared.store, candidates, city, zip5, limit),
                    [op |-> "rank", candidates |-> candidates, city |-> city, zip5 |-> zip5,
                     limit |-> limit])
    /\ results' = <<>>
    /\ pc' = Done
    /\ UNCHANGED <<sic_cache, now, force_ambiguous, zout>>

\* SubmissionsStore.get(cik) called with an identifier in any written form
StoreGetCall(cik) ==
    /\ pc = Idle
    /\ GetReturned(StoreGet(Shared.store, cik),
                   [op |-> "get", cik |-> cik, hit |-> _cik10(cik) \in DOMAIN store_cache])
    /\ results' = <<>>
    /\ pc' = Done
    /\ UNCHANGED <<sic_cache, now, force_ambiguous, zout>>

\* time passes
TickHours == ttl_hours \div 2

Tick ==
    /\ pc = Idle
    /\ now + TickHours <= MaxTicks * TickHours
    /\ now' = now + TickHours
    /\ last' = [op |-> "tick"]
    /\ UNCHANGED <<store_cache, backing_reads, sic_cache, force_ambiguous, pc,
                   results, zout, client, store_closed>>

\* the caller takes the returned value
Return ==
    /\ pc = Done
    /\ pc' = Idle
    /\ results' = <<>>
    /\ last' = [op |-> "return"]
    /\ UNCHANGED <<store_cache, backing_reads, sic_cache, now, force_ambiguous, zout,
                   client, store_closed>>

Next ==
    \/ \E name \in Names, city \in Cities, zip_code \in Zips, args \in ArgSets :
           RunRow(name, city, zip_code, args)
    \/ \E audit_on \in BOOLEAN : CsvOpen(DefaultArgs, audit_on)
    \/ \E r \in CsvRows : CsvRow(r.name, r.city, r.zip)
    \/ CsvRowNaN
    \/ CsvClose
    \/ \E candidates \in CandLists, limit \in Limits :
           RankCall(candidates, <<"Springfield">>, <<"6", "2", "7", "0", "4">>, limit)
    \/ \E cik \in RawCiks : StoreGetCall(cik)
    \/ Tick
    \/ Return

Spec == Init /\ [][Next]_vars

\* postal normalization alone
ZipInit ==
    /\ Init
    /\ force_ambiguous = TRUE
    /\ sic_cache = <<>>

\* the normalizers applied to the input grown by one character
ZipNext == \E c \in ZipAlphabet : NormalizePostal(Append(zout.input, c))

ZipSpec == ZipInit /\ [][ZipNext]_vars

(***************************************************************************)
(* Name normalization alone: _norm_name applied to an input string that    *)
(* grows by one character.                                                 *)
(***************************************************************************)
MaxNameLen == 8

NameAlphabet == {"C", "o", " ", "."}

NameCall(s) ==
    [op |-> "norm_name", input |-> s, output |-> _norm_name_text(s),
     tokens |-> Len(CleanWords(s)), passes |-> SuffixLoopCount(WordsOf(CleanWords(s)))]

NormalizeName(s) ==
    /\ Len(s) <= MaxNameLen
    /\ last' = NameCall(s)
    /\ UNCHANGED <<store_cache, backing_reads, sic_cache, now, force_ambiguous, pc, results,
                   zout, client, store_closed>>

NameInit ==
    /\ store_cache = <<>>
    /\ backing_reads = [c \in Ciks |-> 0]
    /\ sic_cache = <<>>
    /\ now = 0
    /\ force_ambiguous = TRUE
    /\ pc = Idle
    /\ results = <<>>
    /\ last = NameCall(<<>>)
    /\ zout = [applied |-> TRUE, input |-> <<>>, scoring |-> _norm_zip5(<<>>), orch |-> _zip5(<<>>)]
    /\ client = [has_store |-> TRUE, http |-> <<>>]
    /\ store_closed = FALSE

NameNext == \E c \in NameAlphabet : NormalizeName(Append(last.input, c))

NameSpec == NameInit /\ [][NameNext]_vars

(***************************************************************************)
(* Filing metadata alone: _meta_from_subs applied to a document whose      *)
(* three parallel lists of filings.recent grow one entry at a time, each   *)
(* on its own, so that they may differ in length.                          *)
(***************************************************************************)
MaxFilings == 3

FilingForms == {"10-K", "20-F", "8-K"}

\* None and two days
FilingDates == {NoDate, <<2023, 2, 1>>, <<2024, 3, 1>>}

\* the accession number written for the n-th entry
AccessionOf(n) == <<"acc-1", "acc-2", "acc-3", "acc-4", "acc-5">>[n]

DocOf(recent) ==
    [present |-> TRUE, business |-> NoAddress, mailing |-> NoAddress,
     sic |-> None, sicDescription |-> None, recent |-> recent]

\* _meta_from_subs(subs) called: what it returned, or that it raised
MetaCall(recent) ==
    /\ Len(recent.form) <= MaxFilings
    /\ Len(recent.filingDate) <= MaxFilings
    /\ Len(recent.accessionNumber) <= MaxFilings
    /\ last' = [op |-> "meta", recent |-> recent, raised |-> PickRaises(DocOf(recent)),
                idx |-> IF PickRaises(DocOf(recent)) THEN 0
                        ELSE _pick_latest_index_from_subs(DocOf(recent)),
                meta |-> IF PickRaises(DocOf(recent)) THEN NoMeta
                         ELSE _meta_from_subs(DocOf(recent))]
    /\ UNCHANGED <<store_cache, backing_reads, sic_cache, now, force_ambiguous, pc, results,
                   zout, client, store_closed>>

AddForm(f) == MetaCall([last.recent EXCEPT !.form = Append(@, f)])

AddDate(d) == MetaCall([last.recent EXCEPT !.filingDate = Append(@, d)])

AddAccession ==
    MetaCall([last.recent EXCEPT !.accessionNumber = Append(@, AccessionOf(Len(@) + 1))])

FilingInit ==
    /\ store_cache = <<>>
    /\ backing_reads = [c \in Ciks |-> 0]
    /\ sic_cache = <<>>
    /\ now = 0
    /\ force_ambiguous = TRUE
    /\ pc = Idle
    /\ results = <<>>
    /\ last = [op |-> "meta", recent |-> NoFilings, raised |-> FALSE, idx |-> 0,
               meta |-> _meta_from_subs(DocOf(NoFilings))]
    /\ zout = [applied |-> TRUE, input |-> <<>>, scoring |-> _norm_zip5(<<>>), orch |-> _zip5(<<>>)]
    /\ client = [has_store |-> TRUE, http |-> <<>>]
    /\ store_closed = FALSE

FilingNext ==
    \/ \E f \in FilingForms : AddForm(f)
    \/ \E d \in FilingDates : AddDate(d)
    \/ AddAccession

FilingSpec == FilingInit /\ [][FilingNext]_vars

(***************************************************************************)
(* The client alone: get_submissions and SubmissionsStore.get called in    *)
(* any order, for a client built with or without a store, before and after *)
(* the store is closed.                                                    *)
(***************************************************************************)
MaxHttp == 2

\* how the live endpoint may answer
Replies == {"200", "404", "500"}

\* identifiers as a caller may write them, one of them not a number
ClientCiks == RawCiks \cup {<<"x">>}

\* SecClient.get_submissions(cik), the live endpoint answering `reply` if asked
ClientGet(cik, reply) ==
    /\ pc = Idle
    /\ client.has_store \/ Len(client.http) < MaxHttp
    /\ GetReturned(get_submissions(SharedStore(reply), cik),
                   [op |-> "get_submissions", cik |-> cik, has_store |-> client.has_store,
                    reply |-> reply])
    /\ results' = <<>>
    /\ pc' = Done
    /\ UNCHANGED <<sic_cache, now, force_ambiguous, zout>>

\* SubmissionsStore.close()
StoreClose ==
    /\ pc = Idle
    /\ ~store_closed
    /\ store_closed' = TRUE
    /\ last' = [op |-> "close"]
    /\ UNCHANGED <<store_cache, backing_reads, sic_cache, now, force_ambiguous, pc, results,
                   zout, client>>

ClientInit ==
    /\ store_cache = <<>>
    /\ backing_reads = [c \in Ciks |-> 0]
    /\ sic_cache = <<>>
    /\ now = 0
    /\ force_ambiguous = TRUE
    /\ pc = Idle
    /\ results = <<>>
    /\ last = [op |-> "init"]
    /\ zout = [applied |-> TRUE, input |-> <<>>, scoring |-> _norm_zip5(<<>>), orch |-> _zip5(<<>>)]
    /\ client \in {[has_store |-> b, http |-> <<>>] : b \in BOOLEAN}
    /\ store_closed = FALSE

ClientNext ==
    \/ \E cik \in ClientCiks, reply \in Replies : ClientGet(cik, reply)
    \/ \E cik \in RawCiks : StoreGetCall(cik)
    \/ StoreClose
    \/ Return

ClientSpec == ClientInit /\ [][ClientNext]_vars

(***************************************************************************)
(* Properties.                                                             *)
(***************************************************************************)
Range(f) == {f[i] : i \in DOMAIN f}

Min(a, b) == IF a <= b THEN a ELSE b

IsPrefix(p, q) == Len(p) <= Len(q) /\ SubSeq(q, 1, Len(p)) = p

BlankFields(r) == r.sic = "" /\ r.sic_description = "" /\ r.industry_subtype = ""

\* Scale represents every similarity of the bounded universe exactly
ExactArithmetic ==
    \A city \in Cities, c \in Ciks :
        Archive(c).present =>
            \A slot \in {_norm_city(Archive(c).business.city), _norm_city(Archive(c).mailing.city)} :
                LET a == Words(_norm_city(city))
                    inter == JoinLen(a \cap Words(slot))
                IN  /\ PrefixRatioExact(inter, JoinedLen(inter, JoinLen(a \ Words(slot))))
                    /\ PrefixRatioExact(inter, JoinedLen(inter, JoinLen(Words(slot) \ a)))

\* the decision table of the Resolver
TableStatus(ranked, args) ==
    IF ranked = <<>> THEN NotFound
    ELSE IF ranked[1].total_score < args.min_accept THEN NotFound
    ELSE IF Len(ranked) = 1 THEN Accepted
    ELSE IF ranked[1].total_score - ranked[2].total_score >= args.gap_accept THEN Accepted
    ELSE Ambiguous

C3_ForcedOverride ==
    \A i \in 1..Len(results) :
        LET o == results[i]
            r == results[i].row
        IN  /\ r.ambiguous_forced <=>
                   (o.generated /\ o.final.status = Ambiguous /\ force_ambiguous /\ o.ranked # <<>>)
            /\ r.ambiguous_forced =>
                   /\ r.status = Ambiguous
                   /\ r.cik10 = o.ranked[1].cik10
                   /\ o.final.reason # <<>>
                   /\ IsPrefix(o.final.reason, r.reason)
            /\ (~force_ambiguous /\ r.status = Ambiguous) =>
                   ~r.ambiguous_forced /\ o.looked_up = <<>> /\ BlankFields(r)

\* a forced row with the classification of its top candidate
C3_Witness ==
    \E i \in 1..Len(results) :
        /\ results[i].row.ambiguous_forced
        /\ results[i].row.status = Ambiguous
        /\ results[i].row.sic = "3571"
        /\ results[i].looked_up = <<CikA>>

\* C4: in run_csv every row whose name, city or postal code is empty after
\* trimming gets status not_found, reason "missing inputs", no identifier
\* and no classification, and neither candidate generation, the Record
\* Store nor the classification cache is invoked for it.
C4_MissingInputs ==
    \A i \in 1..Len(results) :
        LET o == results[i]
        IN  (o.via = "run_csv" /\ (o.name = <<>> \/ o.city = <<>> \/ Strip(o.zip) = <<>>)) =>
                /\ o.row.status = NotFound
                /\ o.row.reason = <<"missing inputs">>
                /\ o.row.cik10 = <<>>
                /\ BlankFields(o.row)
                /\ ~o.generated
                /\ o.fetches = <<>>
                /\ o.looked_up = <<>>

\* postal normalization as specified: the first five digits, fewer digits
\* left-padded with zeros, and the empty string when there is no digit
SpecPostal(z) ==
    IF Len(StripNonDigits(z)) >= 5 THEN SubSeq(StripNonDigits(z), 1, 5)
    ELSE IF Len(StripNonDigits(z)) >= 1 THEN Zfill(StripNonDigits(z), 5)
    ELSE <<>>

\* C5: both _norm_zip5 and _zip5 return the first five digits of an input
\* with at least five digits, the digits left-padded with zeros to length
\* five for one to four digits, and the empty string for an input that is
\* empty or has no digit.
C5_PostalNormalization ==
    /\ zout.scoring = SpecPostal(zout.input)
    /\ zout.orch = SpecPostal(zout.input)

\* the largest city similarity over the two address slots of cik10
MaxCitySimilarity(city, cik10) ==
    IF ~Archive(cik10).present THEN 0
    ELSE Max(token_set_ratio(city, Archive(cik10).business.city),
             token_set_ratio(city, Archive(cik10).mailing.city))

\* the postal codes of the two address slots of cik10
SlotPostals(cik10) ==
    IF ~Archive(cik10).present THEN {}
    ELSE {Archive(cik10).business.zipCode, Archive(cik10).mailing.zipCode}

\* the postal contribution to the addr_score of rc for the query city
PostalBonus(rc, city) == rc.addr_score - MaxCitySimilarity(city, rc.cik10)

\* C6: the postal contribution to addr_score is 1.0 if the normalized query
\* postal code equals the normalized postal code of an address slot and 0.0
\* otherwise, and a query or slot postal value that is empty or digit-free
\* never counts as a match.
C6_PostalBonus ==
    \A i \in 1..Len(results) :
        \A rc \in Range(results[i].ranked) :
            PostalBonus(rc, results[i].city) =
                IF /\ SpecPostal(results[i].zip) # <<>>
                   /\ \E z \in SlotPostals(rc.cik10) : SpecPostal(z) = SpecPostal(results[i].zip)
                THEN Scale ELSE 0

\* a RankedCandidate of a query for `city` over the candidates `cands`
ScoredRight(rc, city, cands) ==
    /\ 2 * rc.total_score = 2 * rc.addr_score + rc.name_score
    /\ PostalBonus(rc, city) \in {0, Scale}
    /\ 0 <= rc.addr_score /\ rc.addr_score <= 2 * Scale
    /\ \E c \in Range(cands) : c.cik10 = rc.cik10 /\ c.name_score = rc.name_score

\* C7: every RankedCandidate has total_score = addr_score + 0.5 * name_score,
\* addr_score = the largest city similarity over both slots + a postal bonus
\* of 0 or 1, 0 <= addr_score <= 2, and the name_score of its candidate.
C7_ScoreComposition ==
    /\ \A i \in 1..Len(results) :
           \A rc \in Range(results[i].ranked) :
               ScoredRight(rc, results[i].city, name_map(_norm_name(results[i].name)))
    /\ last.op = "rank" =>
           \A rc \in Range(last.ranked) : ScoredRight(rc, last.city, last.candidates)

\* name_score 0.9, city similarity 1.0 and a postal match: addr_score 2.0
\* and total_score 2.45
C7_Witness ==
    \E i \in 1..Len(results) :
        \E rc \in Range(results[i].ranked) :
            /\ rc.name_score = (9 * Scale) \div 10
            /\ rc.matched_zip # <<>>
            /\ rc.addr_score = 2 * Scale
            /\ rc.total_score = (245 * Scale) \div 100

\* descending by total_score, then by addr_score
Ordered(ranked) ==
    \A i, j \in 1..Len(ranked) :
        i < j =>
            /\ ranked[i].total_score >= ranked[j].total_score
            /\ ranked[i].total_score = ranked[j].total_score =>
                   ranked[i].addr_score >= ranked[j].addr_score

\* the candidates of a rank call, scored
Scored(cands, city, zip5) ==
    {ScoreCandidate(c, Archive(c.cik10), _norm_city(city), _norm_zip5(zip5)) : c \in Range(cands)}

\* C8: the list returned by rank is ordered by total_score descending and,
\* for equal totals, by addr_score descending; it has at most limit entries,
\* and no candidate left out has a strictly higher total_score than one kept.
C8_RankOrder ==
    /\ \A i \in 1..Len(results) :
           /\ Ordered(results[i].ranked)
           /\ results[i].generated => Len(results[i].ranked) <= results[i].args.limit
    /\ last.op = "rank" =>
           /\ Ordered(last.ranked)
           /\ Len(last.ranked) = Min(last.limit, Len(last.candidates))
           /\ Range(last.ranked) \subseteq Scored(last.candidates, last.city, last.zip5)
           /\ \A x \in Scored(last.candidates, last.city, last.zip5) \ Range(last.ranked) :
                  \A k \in Range(last.ranked) : x.total_score <= k.total_score

\* the candidates given worst first, limit 1: the best one is returned
C8_Witness ==
    /\ last.op = "rank"
    /\ last.limit = 1
    /\ Len(last.candidates) = 2
    /\ last.candidates[1].cik10 = CikB
    /\ last.candidates[2].cik10 = CikA
    /\ Len(last.ranked) = 1
    /\ last.ranked[1].cik10 = CikA

\* the entry of cik10 is younger than the TTL
WithinTtl(cik10) == cik10 \in DOMAIN sic_cache /\ now - sic_cache[cik10].fetched_at < ttl_hours

\* the classification lookup made for the latest row, against the cache
\* before it
LookupRight(o) ==
    IF WithinTtl(o.looked_up[1])
    THEN /\ ~o.sic_fetched
         /\ o.info = sic_cache[o.looked_up[1]].info
         /\ sic_cache' = sic_cache
    ELSE /\ o.sic_fetched
         /\ o.info = Classification(Archive(o.looked_up[1]))
         /\ o.looked_up[1] \in DOMAIN sic_cache'
         /\ sic_cache'[o.looked_up[1]] = [info |-> o.info, fetched_at |-> now]

\* C9: a classification lookup for an identifier whose entry is younger than
\* the TTL returns the cached value without invoking the Record Store; a
\* lookup when the entry is absent or at least TTL old invokes the Record
\* Store, overwrites the entry with the fresh value stamped with the current
\* time and returns the fresh value.
C9_ClassificationCache ==
    [][(last'.op \in {"run_row", "csv_row"} /\ results'[Len(results')].looked_up # <<>>) =>
           LookupRight(results'[Len(results')])]_vars

\* the entry persisted for CikA has expired and a row has refetched it
C9_Witness ==
    /\ now = ttl_hours
    /\ Len(results) > 0
    /\ results[Len(results)].looked_up = <<CikA>>
    /\ results[Len(results)].sic_fetched
    /\ results[Len(results)].info.sic = "3571"
    /\ sic_cache[CikA] = [info |-> Classification(DocA), fetched_at |-> ttl_hours]

\* C10: the backing store is read at most once per identifier; once an
\* identifier is memoized its entry never changes and is never read again,
\* and a get in any written form returns the memoized result, None included.
C10_StoreMemoization ==
    [][\A c \in Ciks :
           /\ backing_reads'[c] <= 1
           /\ c \in DOMAIN store_cache =>
                  /\ c \in DOMAIN store_cache'
                  /\ store_cache'[c] = store_cache[c]
                  /\ backing_reads'[c] = backing_reads[c]
           /\ (last'.op = "get" /\ _cik10(last'.cik) = c /\ c \in DOMAIN store_cache) =>
                  last'.doc = store_cache[c]]_vars

\* a later get, in another written form, for an identifier the archive lacks
C10_Witness ==
    /\ last.op = "get"
    /\ last.hit
    /\ last.cik = <<"0", "0", "3">>
    /\ ~last.doc.present
    /\ backing_reads[CikC] = 1

\* the store has no document for the identifier or raises on it
StoreGivesNothing(cik) ==
    \/ ~Archive(_cik10(cik)).present
    \/ store_closed /\ _cik10(cik) \notin DOMAIN store_cache

\* C11: a get_submissions of a client built with a submissions_store never
\* reaches the HTTP path, whatever was called before and for any identifier;
\* when the store has no document for the identifier or raises, the call
\* returns None.
C11_NoNetwork ==
    [][(last'.op = "get_submissions" /\ last'.has_store) =>
           /\ client'.http = client.http
           /\ client.http = <<>>
           /\ (IsNumeric(last'.cik) /\ StoreGivesNothing(last'.cik)) =>
                  ~last'.raised /\ ~last'.doc.present]_vars

\* the store was closed before it ever read CikA: it raises, and the call
\* returns None without a request
C11_Witness ==
    /\ last.op = "get_submissions"
    /\ last.has_store
    /\ last.cik = <<"0", "1">>
    /\ store_closed
    /\ CikA \notin DOMAIN store_cache
    /\ ~last.raised
    /\ ~last.doc.present
    /\ client.http = <<>>

\* the entry of a candidate scored without a document
Unmatched(cand) ==
    [cik10 |-> cand.cik10, edgar_name |-> cand.edgar_name, name_score |-> cand.name_score,
     addr_score |-> 0, total_score |-> cand.name_score \div 2,
     matched_city |-> <<>>, matched_zip |-> <<>>,
     form |-> None, accession |-> None, filingDate |-> NoDate]

\* the entry of a candidate whose document the store holds, scored alone
ScoredAlone(cand, city, zip5, st) ==
    rank_candidates(st, <<cand>>, city, zip5, 1).ranked[1]

\* C12: when the Record Store has no document for a candidate's identifier,
\* rank does not fail; the candidate is scored with addr_score 0, total_score
\* 0.5 * name_score, no matched city or postal code and no filing metadata,
\* and it is in the output unless the truncation to `limit` cut it; the
\* other candidates are scored as they are without it.
C12_LookupMiss ==
    last.op = "rank" =>
        /\ Len(last.ranked) = Min(last.limit, Len(last.candidates))
        /\ \A i \in 1..Len(last.candidates) :
               LET cand == last.candidates[i]
               IN  /\ ~Archive(cand.cik10).present =>
                          \/ Unmatched(cand) \in Range(last.ranked)
                          \/ Len(last.ranked) = last.limit /\ Len(last.candidates) > last.limit
                   /\ Archive(cand.cik10).present =>
                          \/ ScoredAlone(cand, last.city, last.zip5, SharedStore(Offline))
                                 \in Range(last.ranked)
                          \/ Len(last.ranked) = last.limit /\ Len(last.candidates) > last.limit

\* a candidate without a document ranked behind one with a document
C12_Witness ==
    /\ last.op = "rank"
    /\ last.limit = 10
    /\ Len(last.candidates) = 2
    /\ last.candidates[1].cik10 = CikC
    /\ last.candidates[2].cik10 = CikA
    /\ Len(last.ranked) = 2
    /\ last.ranked[1].cik10 = CikA
    /\ last.ranked[2] = Unmatched(last.candidates[1])
    /\ last.ranked[2].total_score = Scale \div 2

\* C13: _norm_name applied to its own output returns that output, and the
\* suffix loop ends after at most as many passes as the cleaned input has
\* tokens, also for an input made of suffix tokens only.
C13_NameIdempotent ==
    last.op = "norm_name" =>
        /\ _norm_name_text(last.output) = last.output
        /\ last.passes <= last.tokens

\* "Co Co Co": three suffix tokens, two passes, nothing left
C13_Witness ==
    /\ last.op = "norm_name"
    /\ last.input = <<"C", "o", " ", "C", "o", " ", "C", "o">>
    /\ last.tokens = 3
    /\ last.passes = 2
    /\ last.output = <<>>

\* the audit lines are the ranked lists and resolutions of the rows, in order
AuditMatches(log, rows) ==
    /\ Len(log) = Len(rows)
    /\ \A i \in 1..Len(log) :
           log[i].ranked = rows[i].ranked /\ log[i].final = rows[i].final

\* C14: with the audit log enabled, run_csv writes exactly one record per
\* input row, in input order, the number of audit records equalling the
\* number of output rows, each record holding that row's ranked list and its
\* terminal Resolution.
C14_AuditPerRow ==
    /\ (pc.at = "csv" /\ pc.audit_on) => AuditMatches(pc.audit, results)
    /\ (last.op = "run_csv" /\ last.audit_on) => AuditMatches(last.audit, results)

\* entries with equal total_score and addr_score are in order of filing
\* date, latest first, an entry without a date counting as the earliest
DateDescending(ranked) ==
    \A i, j \in 1..Len(ranked) :
        (i < j /\ ranked[i].total_score = ranked[j].total_score
               /\ ranked[i].addr_score = ranked[j].addr_score) =>
            ~TripleLess(_parse_date_iso(ranked[i].filingDate),
                        _parse_date_iso(ranked[j].filingDate))

\* C15: among ranked candidates with equal total_score and equal addr_score,
\* the one whose most recent filing is later comes first, and one with no or
\* an unparsable filing date comes after those with a date.
C15_DateTieBreak ==
    /\ \A r \in 1..Len(results) : DateDescending(results[r].ranked)
    /\ last.op = "rank" => DateDescending(last.ranked)

NoDuplicates(seq) == \A i, j \in 1..Len(seq) : i < j => seq[i] # seq[j]

\* C16: within one rank call, client.get_submissions is asked at most once
\* per distinct identifier, however many candidates carry it, also when the
\* document for it is missing.
C16_FetchOncePerCall ==
    /\ \A r \in 1..Len(results) : NoDuplicates(results[r].fetches)
    /\ last.op = "rank" => NoDuplicates(last.fetches)

\* the three lists of a filing history are equally long
Complete(recent) ==
    /\ Len(recent.filingDate) = Len(recent.form)
    /\ Len(recent.accessionNumber) = Len(recent.form)

\* the entries the choice is made among: the high-value ones if there are any
Eligible(recent) ==
    IF \E i \in 1..Len(recent.form) : recent.form[i] \in {"10-K", "20-F"}
    THEN {i \in 1..Len(recent.form) : recent.form[i] \in {"10-K", "20-F"}}
    ELSE 1..Len(recent.form)

\* i is the eligible entry with the latest date, the earliest such in
\* document order
IsLatest(recent, i) ==
    /\ i \in Eligible(recent)
    /\ \A j \in Eligible(recent) :
           \/ DateStrLess(recent.filingDate[j], recent.filingDate[i])
           \/ recent.filingDate[j] = recent.filingDate[i] /\ i <= j

\* the choice made for a complete, non-empty filing history
ChoiceRight(recent, idx, meta) ==
    /\ IsLatest(recent, idx)
    /\ meta = [form |-> recent.form[idx], accession |-> recent.accessionNumber[idx],
               filingDate |-> recent.filingDate[idx]]

\* C17: the filing chosen for a document is the latest-dated entry with a
\* form in {10-K, 20-F} if there is one, else the latest-dated entry, the
\* earlier in document order among equal dates; form, accession and date
\* come from that entry; a document with no filing history or with
\* incomplete lists yields null metadata and never an error.
C17_LatestFiling ==
    last.op = "meta" =>
        /\ ~last.raised
        /\ last.recent.form = <<>> => last.meta = NoMeta
        /\ (last.recent.form # <<>> /\ Complete(last.recent)) =>
               ChoiceRight(last.recent, last.idx, last.meta)
====
